---------------------------- MODULE Spec2Model ----------------------------
(***************************************************************************)
(* Model of munajjam.formatting (format_result, format_results) and of the *)
(* alignment core its input records come from.                             *)
(*                                                                         *)
(* Numbers.  A Python float with at most Digits decimal places is modelled *)
(* as the integer number of units of 10^-Digits (fixed point).  round(x,n) *)
(* is Python's round: the nearest multiple of 10^-n of the double's exact  *)
(* binary value, an exact half going to the even neighbour.  The double    *)
(* written as a decimal that lies halfway between two multiples (0.0035 at *)
(* n = 3) is itself a hair below, a hair above, or exactly that decimal,   *)
(* so round returns either neighbour; which one is fixed for a given value *)
(* but is not a function of its decimal digits.  The variable ties fixes   *)
(* the side per behaviour, by the parity of the lower neighbour: that      *)
(* covers half-even, half-odd, always-down and always-up.                  *)
(*                                                                         *)
(* Optional arguments.  An argument that is None or omitted is the empty   *)
(* sequence << >>; an argument with value v is the one-element sequence    *)
(* <<v>>.  So 0 and "" are values, distinct from None, as in Python.       *)
(*                                                                         *)
(* Dicts are functions from key strings to values; DOMAIN is the key set.  *)
(***************************************************************************)
EXTENDS Integers, Sequences, FiniteSets, TLC

VARIABLES
    results,    \* the caller's list of AlignmentResult records
    call,       \* the last call made: function name and its arguments
    out,        \* the value returned by the last call
    ayahs,      \* engine input: ordered sequence of Ayah
    segments,   \* engine input: ordered sequence of TranscribedSegment
    raised,     \* the error raised by the last engine run ("" if none)
    ties        \* side taken at a decimal halfway value: parity -> "down" | "up"

vars == <<results, call, out, ayahs, segments, raised, ties>>

---------------------------------------------------------------------------
(* Bounds of the model *)

Digits == 4         \* decimal places carried by a full-precision value
MaxPrecision == 4   \* precisions 0..MaxPrecision are tried
TimeStep == 7       \* input times are multiples of TimeStep units
MaxTime == 6        \* input times go up to MaxTime * TimeStep units
ScoreStep == 3      \* input scores near the threshold are ScoreStep apart
ScoreSpread == 3    \* ... and ScoreSpread steps either side of it
MaxResults == 2     \* longest results list
MaxAyahs == 3       \* longest ayah sequence given to the engine
MaxSegments == 2    \* longest segment sequence given to the engine

---------------------------------------------------------------------------
(* Numbers *)

RECURSIVE Pow10(_)
Pow10(n) == IF n <= 0 THEN 1 ELSE 10 * Pow10(n - 1)

Unit == Pow10(Digits)          \* the integer that stands for 1.0

Abs(x) == IF x < 0 THEN -x ELSE x

\* 10^-precision in units; 1 unit when precision keeps every digit carried.
Quantum(precision) == Pow10(Digits - precision)

TieRules == [ {0, 1} -> {"down", "up"} ]

\* Python's round(x, precision): the nearest multiple of 10^-precision; at
\* a decimal halfway value the side the double's binary value lies on.
round(x, precision) ==
    LET m == Quantum(precision)
        q == x \div m
        r == x % m
    IN  IF 2 * r < m THEN q * m
        ELSE IF 2 * r > m THEN (q + 1) * m
        ELSE IF ties[q % 2] = "down" THEN q * m
        ELSE (q + 1) * m

None == << >>
Some(v) == <<v>>

\* The value a parameter takes: the argument, or the default when omitted.
Param(arg, default) == IF arg = None THEN default ELSE arg[1]

---------------------------------------------------------------------------
(* munajjam.models: the records the formatter reads *)

\* ConfidenceClassifier threshold 0.85
Threshold == (85 * Unit) \div 100

classify(similarity_score, threshold) == similarity_score >= threshold

\* AlignmentResult(ayah, start_time, end_time, transcribed_text,
\*                 similarity_score, overlap_detected)
\* duration and is_high_confidence are derived, not independently settable.
AlignmentResult(ayah, start_time, end_time, transcribed_text, similarity_score, overlap_detected) ==
    [ ayah               |-> ayah,
      start_time         |-> start_time,
      end_time           |-> end_time,
      duration           |-> end_time - start_time,
      transcribed_text   |-> transcribed_text,
      similarity_score   |-> similarity_score,
      is_high_confidence |-> classify(similarity_score, Threshold),
      overlap_detected   |-> overlap_detected ]

Ayah(surah_id, ayah_number, text) ==
    [ surah_id |-> surah_id, ayah_number |-> ayah_number, text |-> text ]

---------------------------------------------------------------------------
(* munajjam.formatting *)

format_result_precision == 3     \* def format_result(result, precision=3)
format_results_precision == 3    \* def format_results(..., precision=3)

\* format_result without its "duration" entry.
format_result_no_duration(result, precision) ==
    [ ayah_number        |-> result.ayah.ayah_number,
      surah_id           |-> result.ayah.surah_id,
      start_time         |-> round(result.start_time, precision),
      end_time           |-> round(result.end_time, precision),
      transcribed_text   |-> result.transcribed_text,
      reference_text     |-> result.ayah.text,
      similarity_score   |-> round(result.similarity_score, precision),
      is_high_confidence |-> result.is_high_confidence,
      overlap_detected   |-> result.overlap_detected ]

\* format_result with the two texts exchanged.
format_result_texts_swapped(result, precision) ==
    [ ayah_number        |-> result.ayah.ayah_number,
      surah_id           |-> result.ayah.surah_id,
      start_time         |-> round(result.start_time, precision),
      end_time           |-> round(result.end_time, precision),
      duration           |-> round(result.duration, precision),
      transcribed_text   |-> result.ayah.text,
      reference_text     |-> result.transcribed_text,
      similarity_score   |-> round(result.similarity_score, precision),
      is_high_confidence |-> result.is_high_confidence,
      overlap_detected   |-> result.overlap_detected ]

\* format_result with duration derived from the two rounded times.
format_result_duration_of_rounded(result, precision) ==
    [ ayah_number        |-> result.ayah.ayah_number,
      surah_id           |-> result.ayah.surah_id,
      start_time         |-> round(result.start_time, precision),
      end_time           |-> round(result.end_time, precision),
      duration           |-> round(result.end_time, precision)
                               - round(result.start_time, precision),
      transcribed_text   |-> result.transcribed_text,
      reference_text     |-> result.ayah.text,
      similarity_score   |-> round(result.similarity_score, precision),
      is_high_confidence |-> result.is_high_confidence,
      overlap_detected   |-> result.overlap_detected ]

\* format_result with duration rounded from start_time - end_time.
format_result_duration_negated(result, precision) ==
    [ ayah_number        |-> result.ayah.ayah_number,
      surah_id           |-> result.ayah.surah_id,
      start_time         |-> round(result.start_time, precision),
      end_time           |-> round(result.end_time, precision),
      duration           |-> round(result.start_time - result.end_time, precision),
      transcribed_text   |-> result.transcribed_text,
      reference_text     |-> result.ayah.text,
      similarity_score   |-> round(result.similarity_score, precision),
      is_high_confidence |-> result.is_high_confidence,
      overlap_detected   |-> result.overlap_detected ]

\* format_result with the confidence flag recomputed from the rounded score.
format_result_flag_of_rounded(result, precision) ==
    [ ayah_number        |-> result.ayah.ayah_number,
      surah_id           |-> result.ayah.surah_id,
      start_time         |-> round(result.start_time, precision),
      end_time           |-> round(result.end_time, precision),
      duration           |-> round(result.duration, precision),
      transcribed_text   |-> result.transcribed_text,
      reference_text     |-> result.ayah.text,
      similarity_score   |-> round(result.similarity_score, precision),
      is_high_confidence |-> classify(round(result.similarity_score, precision), Threshold),
      overlap_detected   |-> result.overlap_detected ]

format_result(result, precision) ==
    [ ayah_number        |-> result.ayah.ayah_number,
      surah_id           |-> result.ayah.surah_id,
      start_time         |-> round(result.start_time, precision),
      end_time           |-> round(result.end_time, precision),
      duration           |-> round(result.duration, precision),
      transcribed_text   |-> result.transcribed_text,
      reference_text     |-> result.ayah.text,
      similarity_score   |-> round(result.similarity_score, precision),
      is_high_confidence |-> result.is_high_confidence,
      overlap_detected   |-> result.overlap_detected ]

\* format_result rounding the record's own fields in place.
format_result_rounds_in_place(result, precision) ==
    [ result EXCEPT !.start_time = round(@, precision),
                    !.end_time = round(@, precision),
                    !.duration = round(@, precision),
                    !.similarity_score = round(@, precision) ]

\* The input record after format_result returns: the function only reads it.
format_result_leaves(result, precision) == result

\* format_results formatting every entry at format_result's default precision.
format_results_precision_dropped(rs, surah_id, reciter, precision) ==
    LET output == [ ayahs |-> [ i \in 1..Len(rs) |->
                                  format_result(rs[i], format_result_precision) ] ]
        output1 == IF surah_id # None
                   THEN output @@ ("surah_id" :> surah_id[1])
                   ELSE output
        output2 == IF reciter # None
                   THEN output1 @@ ("reciter" :> reciter[1])
                   ELSE output1
    IN  output2

\* format_results testing "if surah_id:" / "if reciter:" instead of "is not None".
format_results_truthiness(rs, surah_id, reciter, precision) ==
    LET output == [ ayahs |-> [ i \in 1..Len(rs) |-> format_result(rs[i], precision) ] ]
        output1 == IF surah_id # None /\ surah_id[1] # 0
                   THEN output @@ ("surah_id" :> surah_id[1])
                   ELSE output
        output2 == IF reciter # None /\ reciter[1] # ""
                   THEN output1 @@ ("reciter" :> reciter[1])
                   ELSE output1
    IN  output2

format_results(rs, surah_id, reciter, precision) ==
    LET output == [ ayahs |-> [ i \in 1..Len(rs) |-> format_result(rs[i], precision) ] ]
        output1 == IF surah_id # None
                   THEN output @@ ("surah_id" :> surah_id[1])
                   ELSE output
        output2 == IF reciter # None
                   THEN output1 @@ ("reciter" :> reciter[1])
                   ELSE output1
    IN  output2

\* The input list after format_results returns: a new list is built by the
\* comprehension; the argument and its elements are only read.
format_results_leaves(rs, precision) ==
    [ i \in 1..Len(rs) |-> format_result_leaves(rs[i], precision) ]

---------------------------------------------------------------------------
(* The alignment core (spec sections 3, 4 and 7).  A text is a sequence of *)
(* words here; times are in the same units as above.                       *)

MinScore == Unit \div 2      \* SpanAssigner: minimum acceptable score
Margin == Unit \div 20       \* SpanAssigner: least improvement that extends a run

TranscribedSegment(start_time, end_time, text) ==
    [ start_time |-> start_time, end_time |-> end_time, text |-> text ]

\* TextMatcher: folding of orthographic noise (a trailing mark on a word).
Fold(word) == IF word = "bismi'" THEN "bismi" ELSE word

normalize(text) == [ i \in 1..Len(text) |-> Fold(text[i]) ]

Min(a, b) == IF a <= b THEN a ELSE b

\* TextMatcher.score: 0.0 for an empty text, 1.0 for texts equal after
\* normalisation, else the share of words that agree in place.
score(reference_text, candidate_text) ==
    IF Len(reference_text) = 0 \/ Len(candidate_text) = 0 THEN 0
    ELSE LET a == normalize(reference_text)
             b == normalize(candidate_text)
             agree == Cardinality({ i \in 1..Min(Len(a), Len(b)) : a[i] = b[i] })
         IN  (2 * agree * Unit) \div (Len(a) + Len(b))

\* The text of the run of k segments starting at index from.
RECURSIVE RunText(_, _, _)
RunText(segs, from, k) ==
    IF k = 0 THEN << >>
    ELSE RunText(segs, from, k - 1) \o segs[from + k - 1].text

\* Greedy extension: the run grows while the next segment improves the
\* score by more than Margin.
RECURSIVE Extend(_, _, _, _)
Extend(text, segs, from, k) ==
    IF /\ from + k <= Len(segs)
       /\ score(text, RunText(segs, from, k + 1))
              > score(text, RunText(segs, from, k)) + Margin
    THEN Extend(text, segs, from, k + 1)
    ELSE k

\* The first of the best-scoring single segments still available.
BestSingle(text, segs, from) ==
    CHOOSE j \in from..Len(segs) :
        \A m \in from..Len(segs) :
            /\ score(text, segs[j].text) >= score(text, segs[m].text)
            /\ score(text, segs[m].text) = score(text, segs[j].text) => j <= m

Span(ayah, start_time, end_time, matched_text, sc) ==
    [ ayah |-> ayah, start_time |-> start_time, end_time |-> end_time,
      matched_text |-> matched_text, score |-> sc ]

\* SpanAssigner that stops when the segments run out.
RECURSIVE assign_from_dropping(_, _, _, _, _)
assign_from_dropping(ays, segs, i, ptr, anchor) ==
    IF i > Len(ays) \/ ptr > Len(segs) THEN << >>
    ELSE LET text == ays[i].text
             k == Extend(text, segs, ptr, 1)
             last == ptr + k - 1
             sc == score(text, RunText(segs, ptr, k))
             j == BestSingle(text, segs, ptr)
         IN  IF sc >= MinScore
             THEN <<Span(ays[i], segs[ptr].start_time, segs[last].end_time,
                         RunText(segs, ptr, k), sc)>>
                  \o assign_from_dropping(ays, segs, i + 1, last + 1, segs[last].end_time)
             ELSE <<Span(ays[i], segs[j].start_time, segs[j].end_time,
                         segs[j].text, score(text, segs[j].text))>>
                  \o assign_from_dropping(ays, segs, i + 1, j + 1, segs[j].end_time)

\* SpanAssigner: ayahs from index i on, the monotonic pointer at ptr, the
\* end of the last matched segment at anchor.
RECURSIVE assign_from(_, _, _, _, _)
assign_from(ays, segs, i, ptr, anchor) ==
    IF i > Len(ays) THEN << >>
    ELSE IF ptr > Len(segs)
    THEN <<Span(ays[i], anchor, anchor, << >>, 0)>>
         \o assign_from(ays, segs, i + 1, ptr, anchor)
    ELSE LET text == ays[i].text
             k == Extend(text, segs, ptr, 1)
             last == ptr + k - 1
             sc == score(text, RunText(segs, ptr, k))
             j == BestSingle(text, segs, ptr)
         IN  IF sc >= MinScore
             THEN <<Span(ays[i], segs[ptr].start_time, segs[last].end_time,
                         RunText(segs, ptr, k), sc)>>
                  \o assign_from(ays, segs, i + 1, last + 1, segs[last].end_time)
             ELSE <<Span(ays[i], segs[j].start_time, segs[j].end_time,
                         segs[j].text, score(text, segs[j].text))>>
                  \o assign_from(ays, segs, i + 1, j + 1, segs[j].end_time)

assign_dropping(ays, segs) == assign_from_dropping(ays, segs, 1, 1, 0)

assign(ays, segs) == assign_from(ays, segs, 1, 1, 0)

\* OverlapDetector flagging only the earlier result of an overlapping pair.
mark_overlaps_earlier_only(rs) ==
    [ i \in 1..Len(rs) |->
        [ rs[i] EXCEPT !.overlap_detected =
            \/ @
            \/ (i < Len(rs) /\ rs[i].end_time > rs[i + 1].start_time) ] ]

\* OverlapDetector: both results of every adjacent pair whose spans
\* intersect get the flag; nothing else is written.
mark_overlaps(rs) ==
    [ i \in 1..Len(rs) |->
        [ rs[i] EXCEPT !.overlap_detected =
            \/ @
            \/ (i < Len(rs) /\ rs[i].end_time > rs[i + 1].start_time)
            \/ (i > 1 /\ rs[i - 1].end_time > rs[i].start_time) ] ]

StrictlyIncreasing(ays) ==
    \A i \in 1..(Len(ays) - 1) : ays[i].ayah_number < ays[i + 1].ayah_number

\* The records the engine builds from the assigned spans, before overlap marking.
Wrap(spans) ==
    [ i \in 1..Len(spans) |->
        AlignmentResult(spans[i].ayah, spans[i].start_time, spans[i].end_time,
                        spans[i].matched_text, spans[i].score, FALSE) ]

\* AlignmentEngine.run: the error it raises, or the results it returns.
AlignmentEngine_run(ays, segs) ==
    IF Len(ays) = 0 \/ Len(segs) = 0
    THEN [ raised |-> "InputError", results |-> << >> ]
    ELSE IF ~StrictlyIncreasing(ays)
    THEN [ raised |-> "OrderingError", results |-> << >> ]
    ELSE [ raised |-> "", results |-> mark_overlaps(Wrap(assign(ays, segs))) ]

---------------------------------------------------------------------------
(* Inputs *)

Precisions == 0..MaxPrecision
PrecisionArgs == {None} \cup { Some(p) : p \in Precisions }
SurahIdArgs == {None, Some(0), Some(1)}
ReciterArgs == {None, Some(""), Some("Test Reciter")}

Times == { k * TimeStep : k \in 0..MaxTime }
Scores == {0, Unit} \cup
          { Threshold + d * ScoreStep : d \in (0 - ScoreSpread)..ScoreSpread }

sample_ayahs == << Ayah(1, 1, "bismi allahi"), Ayah(1, 2, "alhamdu lillahi") >>

NoCall == [ fn |-> "none", index |-> 0, precision |-> None,
            surah_id |-> None, reciter |-> None ]

\* One result with fine-grained times and score.
NumericResults ==
    { AlignmentResult(sample_ayahs[1], s, e, "bismi allah", sc, FALSE) :
        s \in Times, e \in Times, sc \in Scores }

\* Results that differ in ayah, times, text, confidence and overlap flag.
SampleResults ==
    { AlignmentResult(sample_ayahs[a], (2 * a + 1) * TimeStep, (3 * a + 2) * TimeStep + 1,
                      IF a = 1 THEN "bismi allah" ELSE "alhamdu lilah",
                      IF a = 1 THEN Threshold + ScoreStep ELSE Threshold - ScoreStep,
                      ov) :
        a \in 1..2, ov \in BOOLEAN }

RECURSIVE SeqsUpTo(_, _)
SeqsUpTo(S, n) ==
    IF n = 0 THEN { << >> }
    ELSE LET shorter == SeqsUpTo(S, n - 1)
         IN  shorter \cup { Append(s, x) : s \in shorter, x \in S }

InitFormatter(inputs) ==
    /\ results \in inputs
    /\ call = NoCall
    /\ out = << >>
    /\ ayahs = << >>
    /\ segments = << >>
    /\ raised = ""
    /\ ties \in TieRules

Init == InitFormatter(SeqsUpTo(SampleResults, MaxResults))

InitNumeric ==
    InitFormatter({ <<r>> : r \in { x \in NumericResults : x.end_time >= x.start_time } })

---------------------------------------------------------------------------
(* Calls of the formatter *)

CallFormatResult ==
    \E i \in 1..Len(results), precision \in PrecisionArgs :
        /\ out' = format_result(results[i], Param(precision, format_result_precision))
        /\ results' = [ results EXCEPT ![i] =
                          format_result_leaves(@, Param(precision, format_result_precision)) ]
        /\ call' = [ fn |-> "format_result", index |-> i, precision |-> precision,
                     surah_id |-> None, reciter |-> None ]
        /\ UNCHANGED <<ayahs, segments, raised, ties>>

CallFormatResults ==
    \E surah_id \in SurahIdArgs, reciter \in ReciterArgs, precision \in PrecisionArgs :
        /\ out' = format_results(results, surah_id, reciter,
                                 Param(precision, format_results_precision))
        /\ results' = format_results_leaves(results,
                                 Param(precision, format_results_precision))
        /\ call' = [ fn |-> "format_results", index |-> 0, precision |-> precision,
                     surah_id |-> surah_id, reciter |-> reciter ]
        /\ UNCHANGED <<ayahs, segments, raised, ties>>

Next == CallFormatResult \/ CallFormatResults

Spec == Init /\ [][Next]_vars

SpecNumeric == InitNumeric /\ [][Next]_vars

---------------------------------------------------------------------------
(* Runs of the alignment engine *)

\* The corpus: the reference text of each ayah number.
AyahText(n) ==
    IF n = 1 THEN <<"bismi", "allahi">>
    ELSE IF n = 2 THEN <<"alhamdu">>
    ELSE IF n = 3 THEN <<"bismi">>
    ELSE <<"allahi">>

AyahNumbers == 1..MaxAyahs
SegmentTimes == 0..(MaxSegments + 1)
SegmentTexts == { <<"bismi'">>, <<"allahi">> }

AyahInputs ==
    { [ i \in 1..Len(ns) |-> Ayah(1, ns[i], AyahText(ns[i])) ] :
        ns \in SeqsUpTo(AyahNumbers, MaxAyahs) }

AllSegments ==
    { TranscribedSegment(s, e, t) :
        s \in SegmentTimes, e \in SegmentTimes, t \in SegmentTexts }

\* Segments end after they start and come in ascending start_time order.
SegmentInputs ==
    { segs \in SeqsUpTo({ g \in AllSegments : g.end_time > g.start_time }, MaxSegments) :
        \A i \in 1..(Len(segs) - 1) : segs[i].start_time < segs[i + 1].start_time }

InitEngine ==
    /\ ayahs \in AyahInputs
    /\ segments \in SegmentInputs
    /\ results = << >>
    /\ call = NoCall
    /\ out = << >>
    /\ raised = ""
    /\ ties = [ parity \in {0, 1} |-> IF parity = 0 THEN "down" ELSE "up" ]

Run ==
    /\ results' = AlignmentEngine_run(ayahs, segments).results
    /\ raised' = AlignmentEngine_run(ayahs, segments).raised
    /\ call' = [ NoCall EXCEPT !.fn = "run" ]
    /\ UNCHANGED <<out, ayahs, segments, ties>>

NextEngine == Run

SpecEngine == InitEngine /\ [][NextEngine]_vars

---------------------------------------------------------------------------
(* Properties of the formatter *)

\* tests/unit/test_formatting.py: CANONICAL_KEYS
CANONICAL_KEYS ==
    { "ayah_number", "surah_id", "start_time", "end_time", "duration",
      "transcribed_text", "reference_text", "similarity_score",
      "is_high_confidence", "overlap_detected" }

\* The record and the precision of the last format_result call.
LastResult == results[call.index]
LastPrecision == IF call.precision = None THEN 3 ELSE call.precision[1]

\* v is x rounded to precision places: a multiple of 10^-precision that is
\* no further than half of 10^-precision from x.
IsRounded(v, x, precision) ==
    /\ v % Quantum(precision) = 0
    /\ 2 * Abs(v - x) <= Quantum(precision)

\* C1: the dict returned by format_result has exactly the ten canonical
\* keys, for every result and every precision.
C1_CanonicalKeys ==
    call.fn = "format_result" => DOMAIN out = CANONICAL_KEYS

C1_Witness ==
    /\ call.fn = "format_result"
    /\ call.precision = Some(0)
    /\ Cardinality(DOMAIN out) = 10

\* C2: format_results returns an "ayahs" list as long as results whose i-th
\* entry is format_result(results[i], p) for the precision p it was given.
C2_AyahsEntries ==
    call.fn = "format_results" =>
        /\ Len(out.ayahs) = Len(results)
        /\ \A i \in 1..Len(results) :
               out.ayahs[i] = format_result(results[i], LastPrecision)

C2_Witness ==
    /\ call.fn = "format_results"
    /\ call.precision = Some(2)
    /\ Len(results) = 2
    /\ Len(out.ayahs) = 2
    /\ out.ayahs[1].ayah_number # out.ayahs[2].ayah_number
    /\ out.ayahs[1].start_time # results[1].start_time

\* C3: the six non-float fields of format_result's dict are copied
\* unchanged from the input record, whatever the precision.
C3_FieldsCopied ==
    call.fn = "format_result" =>
        /\ out.ayah_number = LastResult.ayah.ayah_number
        /\ out.surah_id = LastResult.ayah.surah_id
        /\ out.transcribed_text = LastResult.transcribed_text
        /\ out.reference_text = LastResult.ayah.text
        /\ out.is_high_confidence = LastResult.is_high_confidence
        /\ out.overlap_detected = LastResult.overlap_detected

C3_Witness ==
    /\ call.fn = "format_result"
    /\ out.overlap_detected = TRUE
    /\ out.is_high_confidence = FALSE
    /\ out.ayah_number # out.surah_id
    /\ out.transcribed_text # out.reference_text

\* C4: start_time, end_time, duration and similarity_score of the dict are
\* each the record's own full-precision field (duration being end_time -
\* start_time) rounded to precision places, independently of one another;
\* an omitted precision is 3.
C4_FloatsRounded ==
    call.fn = "format_result" =>
        /\ out.start_time = round(LastResult.start_time, LastPrecision)
        /\ out.end_time = round(LastResult.end_time, LastPrecision)
        /\ out.duration =
               round(LastResult.end_time - LastResult.start_time, LastPrecision)
        /\ out.similarity_score = round(LastResult.similarity_score, LastPrecision)
        /\ IsRounded(out.start_time, LastResult.start_time, LastPrecision)
        /\ IsRounded(out.end_time, LastResult.end_time, LastPrecision)
        /\ IsRounded(out.duration, LastResult.duration, LastPrecision)
        /\ IsRounded(out.similarity_score, LastResult.similarity_score, LastPrecision)

C4_Witness ==
    /\ call.fn = "format_result"
    /\ call.precision = None
    /\ out.start_time # LastResult.start_time
    /\ out.duration # LastResult.duration
    /\ out.duration # out.end_time - out.start_time
    /\ out.similarity_score # LastResult.similarity_score

\* C5: the key set of format_results' dict is "ayahs", plus "surah_id" iff
\* the surah_id argument is not None, plus "reciter" iff the reciter
\* argument is not None, each carrying the argument's value unchanged (0
\* and "" included); format_results([]) without metadata is {"ayahs": []}.
C5_MetadataKeys ==
    call.fn = "format_results" =>
        /\ DOMAIN out = {"ayahs"}
               \cup (IF call.surah_id # None THEN {"surah_id"} ELSE {})
               \cup (IF call.reciter # None THEN {"reciter"} ELSE {})
        /\ call.surah_id # None => out.surah_id = call.surah_id[1]
        /\ call.reciter # None => out.reciter = call.reciter[1]
        /\ (results = << >> /\ call.surah_id = None /\ call.reciter = None)
               => out = [ ayahs |-> << >> ]

C5_Witness ==
    /\ call.fn = "format_results"
    /\ call.surah_id = Some(0)
    /\ call.reciter = Some("")
    /\ DOMAIN out = {"ayahs", "surah_id", "reciter"}
    /\ out.surah_id = 0
    /\ out.reciter = ""

\* What the last call returns when made on the current inputs alone.
ReturnOf(c, rs) ==
    IF c.fn = "format_result"
    THEN format_result(rs[c.index], IF c.precision = None THEN 3 ELSE c.precision[1])
    ELSE format_results(rs, c.surah_id, c.reciter,
                        IF c.precision = None THEN 3 ELSE c.precision[1])

\* C6: across any sequence of format_result and format_results calls the
\* input records and the input list stay as they were, and every call
\* returns what its arguments alone determine, whatever was called before.
C6_InputsUnchanged ==
    [][ /\ results' = results
        /\ out' = ReturnOf(call', results) ]_vars

C6_Witness ==
    /\ call.fn = "format_results"
    /\ call.precision = Some(1)
    /\ Len(results) = 2
    /\ out.ayahs[2].end_time # results[2].end_time
    /\ out.ayahs[2].similarity_score # results[2].similarity_score

\* C9 as stated: the emitted duration equals the emitted end_time minus the
\* emitted start_time, and is not negative.
C9_EmittedDurationExact ==
    call.fn = "format_result" =>
        /\ out.duration = out.end_time - out.start_time
        /\ out.duration >= 0

\* C9 amended: the emitted duration is the record's duration rounded to
\* precision places and is not negative; it lies within one unit of the
\* last place kept (10^-precision) of emitted end_time - emitted start_time.
C9_EmittedDurationRounded ==
    call.fn = "format_result" =>
        /\ out.duration = round(LastResult.duration, LastPrecision)
        /\ out.duration >= 0
        /\ Abs(out.duration - (out.end_time - out.start_time))
               <= Quantum(LastPrecision)

C9_Witness ==
    /\ call.fn = "format_result"
    /\ LastResult.end_time > LastResult.start_time
    /\ Abs(out.duration - (out.end_time - out.start_time)) = Quantum(LastPrecision)

\* C10 as stated: the emitted flag equals (emitted score >= threshold).
C10_EmittedFlagAgrees ==
    call.fn = "format_result" =>
        out.is_high_confidence = (out.similarity_score >= Threshold)

\* C10 amended: the emitted flag is the comparison of the full-precision
\* score with the threshold; when the threshold is itself a multiple of
\* 10^-precision, a true flag comes with an emitted score >= threshold (a
\* false flag may come with an emitted score that rounded up to it).
C10_EmittedFlagFullPrecision ==
    call.fn = "format_result" =>
        /\ out.is_high_confidence = (LastResult.similarity_score >= Threshold)
        /\ (out.is_high_confidence /\ round(Threshold, LastPrecision) = Threshold)
               => out.similarity_score >= Threshold

C10_Witness ==
    /\ call.fn = "format_result"
    /\ round(Threshold, LastPrecision) = Threshold
    /\ ~out.is_high_confidence
    /\ out.similarity_score >= Threshold

---------------------------------------------------------------------------
(* Properties of the alignment engine *)

ValidInput == Len(ayahs) > 0 /\ Len(segments) > 0 /\ StrictlyIncreasing(ayahs)

\* Whether results[i] has a neighbour whose span intersects its own.
ViolatingNeighbour(rs, i) ==
    \/ (i < Len(rs) /\ rs[i].end_time > rs[i + 1].start_time)
    \/ (i > 1 /\ rs[i - 1].end_time > rs[i].start_time)

\* C7: after overlap marking, a result is flagged iff it has a violating
\* neighbour (both members of every overlapping adjacent pair, nothing
\* else), and every start_time and end_time is the one that was assigned.
C7_OverlapFlags ==
    (call.fn = "run" /\ raised = "") =>
        /\ \A i \in 1..Len(results) :
               results[i].overlap_detected <=> ViolatingNeighbour(results, i)
        /\ Len(results) = Len(assign(ayahs, segments))
        /\ \A i \in 1..Len(results) :
               /\ results[i].start_time = assign(ayahs, segments)[i].start_time
               /\ results[i].end_time = assign(ayahs, segments)[i].end_time

C7_Witness ==
    /\ call.fn = "run"
    /\ raised = ""
    /\ Len(results) = 3
    /\ results[1].overlap_detected
    /\ results[2].overlap_detected
    /\ ~results[3].overlap_detected
    /\ results[1].end_time > results[2].start_time

\* C8: on valid input the run returns one result per input ayah, with the
\* input ayah_numbers in the input order; ayahs beyond the last segment get
\* a zero-duration span with similarity_score 0.0 and raise no error.
C8_OneResultPerAyah ==
    (call.fn = "run" /\ ValidInput) =>
        /\ raised = ""
        /\ Len(results) = Len(ayahs)
        /\ \A i \in 1..Len(results) :
               results[i].ayah.ayah_number = ayahs[i].ayah_number
        /\ \A i \in 1..Len(results) :
               i > Len(segments) =>
                   /\ results[i].duration = 0
                   /\ results[i].similarity_score = 0
                   /\ ~results[i].is_high_confidence

C8_Witness ==
    /\ call.fn = "run"
    /\ ValidInput
    /\ Len(ayahs) = 3
    /\ Len(segments) = 1
    /\ Len(results) = 3
    /\ results[1].duration > 0
    /\ results[3].duration = 0
    /\ results[3].start_time = segments[1].end_time

=============================================================================
